---- MODULE Spec2Model ----
(***************************************************************************)
(* Client-side session state machines of the drone dashboard.              *)
(*                                                                         *)
(*  - Spec   : the Socket.IO dashboard script, src/static/script.js        *)
(*             lines 184-382 (connection handling, video toggle, command   *)
(*             dispatch, status polling, visibility / unload / resize).    *)
(*  - SpecDC : the web-app client, src/Drone Web App/src/api consumption/  *)
(*             drone-control.js (isConnected / isStreaming state).         *)
(*                                                                         *)
(* Every handler runs to completion (single-threaded event loop), so each  *)
(* handler is one action.  An async function is split at its await: one    *)
(* action issues the request, another handles the response.                *)
(***************************************************************************)
EXTENDS Integers, Sequences, FiniteSets, TLC

\* ------------------------------------------------------------------ bounds
\* Total number of log lines appended in one explored run.
MaxLog == 3
\* The connect and disconnect handlers may still log while the log holds fewer
\* lines than this (room for connect, toggle, drop and reconnect in one run).
MaxLifecycleLog == 4
\* Total number of socket.emit calls in one explored run.
MaxSent == 3
\* Total number of /status requests issued in one explored run.
MaxRequests == 2
\* Largest interval-timer handle handed out by setInterval.
MaxTimerId == 2
\* drone-control.js: number of HTTP requests issued in one explored run.
MaxFetches == 2
\* Number of addLog calls in one run of the log recorder on its own.
MaxAppends == 103
\* Number of /status polls in one run of the poller on its own.
MaxPolls == 150
\* Reconnection attempts explored for a socket whose options set no limit.
MaxAttempts == 6
\* Minutes of server time explored (tokens live for two).
MaxClock == 3
\* REST dashboard: number of fetch() calls in one explored run.
MaxRest == 3

\* --------------------------------------------------------- program constants
\* "Keep only last 100 logs"
LogCapacity == 100

\* ------------------------------------------------------------------ inputs
\* Lifecycle commands passed to sendCommand / sendDroneCommand.
Commands == {"takeoff", "land"}
\* Arguments of sendMoveCommand(direction, distance).
Directions == {"forward"}
Distances == {20}
\* Payloads of pushed video_frame messages (base64 text).
Frames == {"f1", "f2"}
\* Free-text payloads of pushed 'message' events.
Messages == {"status text"}
\* The payload { command } carries no distance.
NoDistance == 0
\* Bodies of successful GET /status responses (drone-control.js reads these
\* three fields in checkCriticalStatus).
TelemetryData ==
    { [battery |-> 80, height |-> 50, wifi_strength |-> 90],
      [battery |-> 15, height |-> 120, wifi_strength |-> 30] }
\* The element ids updateStatusDisplay writes.
StatusFields ==
    {"battery", "height", "temperature", "flight_time", "is_flying", "wifi_strength"}
\* No field shows the data of any request yet.
NoSnapshot == [f \in StatusFields |-> 0]
\* The telemetry displays before the first successful response.
NoTelemetry == [battery |-> -1, height |-> -1, wifi_strength |-> -1]

\* req.cookies.token when the request carries no token cookie.
NoToken == [id |-> "", email |-> "", key |-> "", exp |-> 0]
\* req.body of a request that carries no login form.
NoBody == [email |-> "", password |-> ""]
\* The five status fields before getStatus has filled them in.
NoRestStatus == [f \in {"battery-status", "height-status", "flight-time-status",
                        "temperature-status", "wifi-status"} |-> 0]
\* No fetch has settled yet.
NoOutcome == [rejected |-> FALSE, json |-> FALSE, ok |-> FALSE]

VARIABLES
    \* ---- src/static/script.js (lines 184-382)
    socketConnected,   \* socket.connected
    connectionStatus,  \* connectionStatus.textContent
    isVideoActive,     \* let isVideoActive
    videoFeedSrc,      \* videoFeed.src ("" = cleared)
    toggleText,        \* toggleVideoBtn.textContent
    logEntries,        \* children of logContainer, oldest first
    sent,              \* socket.emit calls, in order
    statusTimer,       \* let statusTimer (handle of the last setInterval)
    timers,            \* interval timers currently running
    nextTimerId,       \* next handle setInterval returns
    inflight,          \* /status requests awaiting their response
    nextRequest,       \* id of the next /status request
    snapshot,          \* per status field, the request whose data it shows
    docHidden,         \* document.hidden
    resizeTimeout,     \* number of pending 250 ms debounce timeouts
    restartPending,    \* the nested 100 ms restart timeout is pending
    unloaded,          \* the unload handler has run
    \* ---- src/Drone Web App/src/api consumption/drone-control.js
    isConnected,       \* let isConnected
    isStreaming,       \* let isStreaming
    dcVideoSrc,        \* elements.videoFeed.src
    dcSent,            \* socket.emit calls, in order
    dcFetches,         \* fetch() calls issued, in order
    dcPending,         \* indices of dcFetches awaiting their response
    dcTelemetry,       \* data shown by the telemetry displays
    startBtnDisabled,  \* elements.startStreamBtn.disabled
    stopBtnDisabled,   \* elements.stopStreamBtn.disabled
    dcLog,             \* droneLogger.addLog calls, in order
    \* ---- the Socket.IO managers behind the two sockets
    ioPhase,           \* script.js socket: opening / open / waiting / closed
    ioAttempts,        \* script.js socket: reconnection attempts of this loop
    dcPhase,           \* drone-control.js socket: the same
    dcAttempts,
    \* ---- src/Drone Web App/server (login, logout, dashboard routes)
    cookie,            \* the browser's 'token' cookie
    clock,             \* server time, in minutes
    issued,            \* the tokens POST /login has signed
    lastResponse,      \* the last request handled and its response
    \* ---- src/static/script.js lines 1-58 (REST dashboard)
    restPending,       \* fetch() promise chains not yet settled
    restIssued,        \* number of fetch() calls made
    restLocation,      \* window.location.href
    restAlerts,        \* alert() calls, in order
    restDisplay,       \* the five status fields getStatus fills in
    restLast           \* the last settled request and its outcome

scriptVars == <<socketConnected, connectionStatus, isVideoActive, videoFeedSrc,
                toggleText, logEntries, sent, statusTimer, timers, nextTimerId,
                inflight, nextRequest, snapshot, docHidden, resizeTimeout,
                restartPending, unloaded>>

dcVars == <<isConnected, isStreaming, dcVideoSrc, dcSent, dcFetches, dcPending,
            dcTelemetry, startBtnDisabled, stopBtnDisabled, dcLog>>

managerVars == <<ioPhase, ioAttempts, dcPhase, dcAttempts>>

serverVars == <<cookie, clock, issued, lastResponse>>

restVars == <<restPending, restIssued, restLocation, restAlerts, restDisplay,
              restLast>>

\* Everything a handler of script.js (lines 184-382) cannot touch, and
\* everything a handler of drone-control.js cannot touch.
outsideScript == <<dcVars, managerVars, serverVars, restVars>>

outsideDC == <<scriptVars, managerVars, serverVars, restVars>>

vars == <<socketConnected, connectionStatus, isVideoActive, videoFeedSrc,
          toggleText, logEntries, sent, statusTimer, timers, nextTimerId,
          inflight, nextRequest, snapshot, docHidden, resizeTimeout,
          restartPending, unloaded,
          isConnected, isStreaming, dcVideoSrc, dcSent, dcFetches, dcPending,
          dcTelemetry, startBtnDisabled, stopBtnDisabled, dcLog,
          ioPhase, ioAttempts, dcPhase, dcAttempts, cookie, clock, issued, lastResponse,
          restPending, restIssued, restLocation, restAlerts, restDisplay,
          restLast>>

\* ----------------------------------------------------------------- helpers

RECURSIVE TrimLog_OffByOne(_)
TrimLog_OffByOne(entries) ==
    IF Len(entries) >= LogCapacity THEN TrimLog_OffByOne(Tail(entries)) ELSE entries

RECURSIVE TrimLog(_)
\* while (logContainer.children.length > 100) removeChild(firstChild)
TrimLog(entries) ==
    IF Len(entries) > LogCapacity THEN TrimLog(Tail(entries)) ELSE entries

addLog_NoTrim(entries, message) == Append(entries, message)

\* addLog(message): appendChild, then trim to the last 100.
\* The "[time]" prefix comes from the wall clock and is left out of the entry.
addLog(entries, message) == TrimLog(Append(entries, message))

\* One socket.emit call: event name, payload, and socket.connected at the call.
Emit(event, command, distance) ==
    [event |-> event, command |-> command, distance |-> distance,
     connected |-> socketConnected]

\* Session connectivity as the page represents it: the transport flag
\* socket.connected, and the 'Error' indicator set by a failed poll or a
\* socket error while the transport is still up.
ConnectivityState ==
    IF ~socketConnected THEN "Disconnected"
    ELSE IF connectionStatus = "Error" THEN "Degraded"
    ELSE "Connected"

\* isVideoActive is the only video state the script keeps.
VideoStreamState == IF isVideoActive THEN "Active" ELSE "Inactive"

\* -------------------------------------------------------------------- Init
\* State after the script has been evaluated: the socket is still connecting,
\* the initial fetchStatus() is in flight and the first interval timer runs.
\* The page may be loaded in a background tab (document.hidden = true).
InitScript ==
    /\ socketConnected = FALSE
    /\ connectionStatus = ""
    /\ isVideoActive = FALSE
    /\ videoFeedSrc = ""
    /\ toggleText = "Start Video"
    /\ logEntries = <<>>
    /\ sent = <<>>
    /\ statusTimer = 1
    /\ timers = {1}
    /\ nextTimerId = 2
    /\ inflight = {1}
    /\ nextRequest = 2
    /\ snapshot = NoSnapshot
    /\ docHidden \in BOOLEAN
    /\ resizeTimeout = 0
    /\ restartPending = FALSE
    /\ unloaded = FALSE

InitDC ==
    /\ isConnected = FALSE
    /\ isStreaming = FALSE
    /\ dcVideoSrc = ""
    /\ dcSent = <<>>
    /\ dcFetches = <<>>
    /\ dcPending = {}
    /\ dcTelemetry = NoTelemetry
    /\ startBtnDisabled = FALSE
    /\ stopBtnDisabled = FALSE
    /\ dcLog = <<>>

\* Both sockets are created by io(...) and are opening.
InitManager ==
    /\ ioPhase = "opening"
    /\ ioAttempts = 0
    /\ dcPhase = "opening"
    /\ dcAttempts = 0

\* The browser holds no token cookie; nothing has been requested yet.
InitServer ==
    /\ cookie = NoToken
    /\ clock = 0
    /\ issued = {}
    /\ lastResponse = [route |-> "", status |-> 0, handlerRan |-> FALSE,
                       token |-> NoToken, at |-> 0, body |-> NoBody,
                       threw |-> FALSE]

\* The REST dashboard page is shown; no request has been made.
InitRest ==
    /\ restPending = {}
    /\ restIssued = 0
    /\ restLocation = "/"
    /\ restAlerts = <<>>
    /\ restDisplay = NoRestStatus
    /\ restLast = [request |-> 0, url |-> "", outcome |-> NoOutcome]

Init == InitScript /\ InitDC /\ InitManager /\ InitServer /\ InitRest

\* --------------------------------------------------- script.js: connection

\* The disconnect handler of the 2nd revision (lines 74-78): no video reset.
DisconnectHandler_NoVideoReset ==
    /\ connectionStatus' = "Disconnected"
    /\ logEntries' = addLog(logEntries, <<"Disconnected from drone control system">>)
    /\ UNCHANGED <<isVideoActive, videoFeedSrc, toggleText>>

\* Body of socket.on('disconnect'): indicator, log line, video reset.
DisconnectHandler ==
    /\ connectionStatus' = "Disconnected"
    /\ logEntries' = addLog(logEntries, <<"Disconnected from drone control system">>)
    /\ isVideoActive' = FALSE
    /\ videoFeedSrc' = ""
    /\ toggleText' = "Start Video"

\* A connect handler that logs but leaves the indicator as it finds it.
ConnectHandler_KeepsIndicator ==
    /\ connectionStatus' = connectionStatus
    /\ logEntries' = addLog(logEntries, <<"Connected to drone control system">>)

\* Body of socket.on('connect'): indicator and log line.
ConnectHandler ==
    /\ connectionStatus' = "Connected"
    /\ logEntries' = addLog(logEntries, <<"Connected to drone control system">>)

\* The transport comes up; socket.on('connect') runs.
Connect ==
    /\ ~unloaded
    /\ ~socketConnected
    /\ Len(logEntries) < MaxLifecycleLog
    /\ socketConnected' = TRUE
    /\ ConnectHandler
    /\ UNCHANGED <<isVideoActive, videoFeedSrc, toggleText, sent, statusTimer,
                   timers, nextTimerId, inflight, nextRequest, snapshot,
                   docHidden, resizeTimeout, restartPending, unloaded>>
    /\ UNCHANGED outsideScript

\* The transport drops; socket.on('disconnect') runs.
Disconnect ==
    /\ ~unloaded
    /\ socketConnected
    /\ Len(logEntries) < MaxLifecycleLog
    /\ socketConnected' = FALSE
    /\ DisconnectHandler
    /\ UNCHANGED <<sent, statusTimer, timers, nextTimerId, inflight,
                   nextRequest, snapshot, docHidden, resizeTimeout,
                   restartPending, unloaded>>
    /\ UNCHANGED outsideScript

\* An error handler that also performs the disconnect handler's video reset.
SocketError_ResetsVideo ==
    /\ ~unloaded
    /\ Len(logEntries) < MaxLog
    /\ logEntries' = addLog(logEntries, <<"Socket error: ">>)
    /\ connectionStatus' = "Error"
    /\ isVideoActive' = FALSE
    /\ videoFeedSrc' = ""
    /\ toggleText' = "Start Video"
    /\ UNCHANGED <<socketConnected, sent, statusTimer, timers, nextTimerId,
                   inflight, nextRequest, snapshot, docHidden, resizeTimeout,
                   restartPending, unloaded>>
    /\ UNCHANGED outsideScript

\* socket.on('error')
SocketError ==
    /\ ~unloaded
    /\ Len(logEntries) < MaxLog
    /\ logEntries' = addLog(logEntries, <<"Socket error: ">>)
    /\ connectionStatus' = "Error"
    /\ UNCHANGED <<socketConnected, isVideoActive, videoFeedSrc, toggleText,
                   sent, statusTimer, timers, nextTimerId, inflight,
                   nextRequest, snapshot, docHidden, resizeTimeout,
                   restartPending, unloaded>>
    /\ UNCHANGED outsideScript

\* socket.on('message')
Message ==
    /\ ~unloaded
    /\ socketConnected
    /\ Len(logEntries) < MaxLog
    /\ \E m \in Messages : logEntries' = addLog(logEntries, <<m>>)
    /\ UNCHANGED <<socketConnected, connectionStatus, isVideoActive,
                   videoFeedSrc, toggleText, sent, statusTimer, timers,
                   nextTimerId, inflight, nextRequest, snapshot, docHidden,
                   resizeTimeout, restartPending, unloaded>>
    /\ UNCHANGED outsideScript

\* -------------------------------------------------------- script.js: video

RenderFrame_Unconditional(f) == f

\* if (videoFeed && isVideoActive) videoFeed.src = frame
RenderFrame(f) == IF isVideoActive THEN f ELSE videoFeedSrc

\* A frame handler that turns the video on when a frame arrives.
VideoFrame_Activates ==
    /\ ~unloaded
    /\ socketConnected
    /\ \E f \in Frames : videoFeedSrc' = f
    /\ isVideoActive' = TRUE
    /\ UNCHANGED <<socketConnected, connectionStatus,
                   toggleText, logEntries, sent, statusTimer, timers,
                   nextTimerId, inflight, nextRequest, snapshot, docHidden,
                   resizeTimeout, restartPending, unloaded>>
    /\ UNCHANGED outsideScript

\* socket.on('video_frame')
VideoFrame ==
    /\ ~unloaded
    /\ socketConnected
    /\ \E f \in Frames : videoFeedSrc' = RenderFrame(f)
    /\ UNCHANGED <<socketConnected, connectionStatus, isVideoActive,
                   toggleText, logEntries, sent, statusTimer, timers,
                   nextTimerId, inflight, nextRequest, snapshot, docHidden,
                   resizeTimeout, restartPending, unloaded>>
    /\ UNCHANGED outsideScript

\* A toggle-on that leaves the button label alone.
ToggleOn_KeepsLabel ==
    /\ sent' = Append(sent, Emit("start_video", "", NoDistance))
    /\ toggleText' = toggleText
    /\ logEntries' = addLog(logEntries, <<"Starting video stream">>)
    /\ UNCHANGED videoFeedSrc

\* The branch of the click handler taken when isVideoActive became true.
ToggleOn ==
    /\ sent' = Append(sent, Emit("start_video", "", NoDistance))
    /\ toggleText' = "Stop Video"
    /\ logEntries' = addLog(logEntries, <<"Starting video stream">>)
    /\ UNCHANGED videoFeedSrc

\* A toggle-off that resets the page without telling the server.
ToggleOff_NoStop ==
    /\ sent' = sent
    /\ toggleText' = "Start Video"
    /\ videoFeedSrc' = ""
    /\ logEntries' = addLog(logEntries, <<"Stopping video stream">>)

ToggleOff_KeepsFrame ==
    /\ sent' = Append(sent, Emit("stop_video", "", NoDistance))
    /\ toggleText' = "Start Video"
    /\ UNCHANGED videoFeedSrc
    /\ logEntries' = addLog(logEntries, <<"Stopping video stream">>)

\* The branch of the click handler taken when isVideoActive became false.
ToggleOff ==
    /\ sent' = Append(sent, Emit("stop_video", "", NoDistance))
    /\ toggleText' = "Start Video"
    /\ videoFeedSrc' = ""
    /\ logEntries' = addLog(logEntries, <<"Stopping video stream">>)

\* toggleVideoBtn click
ToggleVideo ==
    /\ ~unloaded
    /\ Len(logEntries) < MaxLog
    /\ Len(sent) < MaxSent
    /\ isVideoActive' = ~isVideoActive
    /\ IF isVideoActive' THEN ToggleOn ELSE ToggleOff
    /\ UNCHANGED <<socketConnected, connectionStatus, statusTimer, timers,
                   nextTimerId, inflight, nextRequest, snapshot, docHidden,
                   resizeTimeout, restartPending, unloaded>>
    /\ UNCHANGED outsideScript

\* ----------------------------------------------------- script.js: commands

NotConnected_NeverRejects == FALSE

\* if (!socket.connected) -- the guard of sendCommand and sendMoveCommand.
NotConnected == ~socketConnected

\* sendCommand that logs the rejection but falls through to the emit.
SendCommand_NoReturn ==
    /\ ~unloaded
    /\ Len(logEntries) < MaxLog
    /\ \E c \in Commands :
         IF NotConnected
         THEN /\ Len(sent) < MaxSent
              /\ logEntries' = addLog(logEntries, <<"Error: Not connected to drone">>)
              /\ sent' = Append(sent, Emit("drone_command", c, NoDistance))
         ELSE /\ Len(sent) < MaxSent
              /\ sent' = Append(sent, Emit("drone_command", c, NoDistance))
              /\ logEntries' = addLog(logEntries, <<"Sending command: ", c>>)
    /\ UNCHANGED <<socketConnected, connectionStatus, isVideoActive,
                   videoFeedSrc, toggleText, statusTimer, timers, nextTimerId,
                   inflight, nextRequest, snapshot, docHidden, resizeTimeout,
                   restartPending, unloaded>>
    /\ UNCHANGED outsideScript

\* sendCommand(command)
SendCommand ==
    /\ ~unloaded
    /\ Len(logEntries) < MaxLog
    /\ \E c \in Commands :
         IF NotConnected
         THEN /\ logEntries' = addLog(logEntries, <<"Error: Not connected to drone">>)
              /\ UNCHANGED sent
         ELSE /\ Len(sent) < MaxSent
              /\ sent' = Append(sent, Emit("drone_command", c, NoDistance))
              /\ logEntries' = addLog(logEntries, <<"Sending command: ", c>>)
    /\ UNCHANGED <<socketConnected, connectionStatus, isVideoActive,
                   videoFeedSrc, toggleText, statusTimer, timers, nextTimerId,
                   inflight, nextRequest, snapshot, docHidden, resizeTimeout,
                   restartPending, unloaded>>
    /\ UNCHANGED outsideScript

\* sendMoveCommand that emits the direction without the distance.
SendMoveCommand_DropsDistance ==
    /\ ~unloaded
    /\ Len(logEntries) < MaxLog
    /\ \E d \in Directions, n \in Distances :
         IF NotConnected
         THEN /\ logEntries' = addLog(logEntries, <<"Error: Not connected to drone">>)
              /\ UNCHANGED sent
         ELSE /\ Len(sent) < MaxSent
              /\ sent' = Append(sent, Emit("drone_command", d, NoDistance))
              /\ logEntries' = addLog(logEntries, <<"Sending movement command: ", d, n>>)
    /\ UNCHANGED <<socketConnected, connectionStatus, isVideoActive,
                   videoFeedSrc, toggleText, statusTimer, timers, nextTimerId,
                   inflight, nextRequest, snapshot, docHidden, resizeTimeout,
                   restartPending, unloaded>>
    /\ UNCHANGED outsideScript

\* sendMoveCommand(direction, distance)
SendMoveCommand ==
    /\ ~unloaded
    /\ Len(logEntries) < MaxLog
    /\ \E d \in Directions, n \in Distances :
         IF NotConnected
         THEN /\ logEntries' = addLog(logEntries, <<"Error: Not connected to drone">>)
              /\ UNCHANGED sent
         ELSE /\ Len(sent) < MaxSent
              /\ sent' = Append(sent, Emit("drone_command", d, n))
              /\ logEntries' = addLog(logEntries, <<"Sending movement command: ", d, n>>)
    /\ UNCHANGED <<socketConnected, connectionStatus, isVideoActive,
                   videoFeedSrc, toggleText, statusTimer, timers, nextTimerId,
                   inflight, nextRequest, snapshot, docHidden, resizeTimeout,
                   restartPending, unloaded>>
    /\ UNCHANGED outsideScript

\* ------------------------------------------------------ script.js: polling

\* A display update that writes only the battery field.
updateStatusDisplay_BatteryOnly(display, r) == [display EXCEPT !["battery"] = r]

\* updateStatusDisplay(data): every field is overwritten from the one response.
updateStatusDisplay(display, r) == [f \in DOMAIN display |-> r]

\* A running interval timer fires: fetchStatus() issues GET /status and
\* suspends at the await.
StatusTick ==
    /\ ~unloaded
    /\ nextRequest <= MaxRequests
    /\ \E t \in timers :
         /\ inflight' = inflight \cup {nextRequest}
         /\ nextRequest' = nextRequest + 1
    /\ UNCHANGED <<socketConnected, connectionStatus, isVideoActive,
                   videoFeedSrc, toggleText, logEntries, sent, statusTimer,
                   timers, nextTimerId, snapshot, docHidden, resizeTimeout,
                   restartPending, unloaded>>
    /\ UNCHANGED outsideScript

\* A success branch that also puts the indicator back to 'Connected'.
StatusResponseOk_MarksConnected ==
    /\ ~unloaded
    /\ Len(logEntries) < MaxLog
    /\ \E r \in inflight :
         /\ inflight' = inflight \ {r}
         /\ snapshot' = updateStatusDisplay(snapshot, r)
    /\ logEntries' = addLog(logEntries, <<"Status updated successfully">>)
    /\ connectionStatus' = "Connected"
    /\ UNCHANGED <<socketConnected, isVideoActive,
                   videoFeedSrc, toggleText, sent, statusTimer, timers,
                   nextTimerId, nextRequest, docHidden, resizeTimeout,
                   restartPending, unloaded>>
    /\ UNCHANGED outsideScript

\* A success branch that clears an 'Error' indicator back to what the
\* transport says.
StatusResponseOk_ClearsError ==
    /\ ~unloaded
    /\ Len(logEntries) < MaxLog
    /\ \E r \in inflight :
         /\ inflight' = inflight \ {r}
         /\ snapshot' = updateStatusDisplay(snapshot, r)
    /\ logEntries' = addLog(logEntries, <<"Status updated successfully">>)
    /\ connectionStatus' = IF connectionStatus # "Error" THEN connectionStatus
                           ELSE IF socketConnected THEN "Connected"
                           ELSE "Disconnected"
    /\ UNCHANGED <<socketConnected, isVideoActive,
                   videoFeedSrc, toggleText, sent, statusTimer, timers,
                   nextTimerId, nextRequest, docHidden, resizeTimeout,
                   restartPending, unloaded>>
    /\ UNCHANGED outsideScript

\* fetchStatus resumes with response.ok: updateStatusDisplay(data), log line.
StatusResponseOk ==
    /\ ~unloaded
    /\ Len(logEntries) < MaxLog
    /\ \E r \in inflight :
         /\ inflight' = inflight \ {r}
         /\ snapshot' = updateStatusDisplay(snapshot, r)
    /\ logEntries' = addLog(logEntries, <<"Status updated successfully">>)
    /\ UNCHANGED <<socketConnected, connectionStatus, isVideoActive,
                   videoFeedSrc, toggleText, sent, statusTimer, timers,
                   nextTimerId, nextRequest, docHidden, resizeTimeout,
                   restartPending, unloaded>>
    /\ UNCHANGED outsideScript

\* A catch block that retries at once instead of waiting for the next tick.
StatusResponseFail_Retries ==
    /\ ~unloaded
    /\ Len(logEntries) < MaxLog
    /\ nextRequest <= MaxRequests
    /\ \E r \in inflight : inflight' = (inflight \ {r}) \cup {nextRequest}
    /\ nextRequest' = nextRequest + 1
    /\ logEntries' = addLog(logEntries, <<"Error fetching status: ">>)
    /\ connectionStatus' = "Error"
    /\ UNCHANGED <<socketConnected, isVideoActive, videoFeedSrc, toggleText,
                   sent, statusTimer, timers, nextTimerId, snapshot, docHidden,
                   resizeTimeout, restartPending, unloaded>>
    /\ UNCHANGED outsideScript

\* fetchStatus resumes in its catch block: fetch rejected, the body was not
\* JSON, or the status was not ok.
StatusResponseFail ==
    /\ ~unloaded
    /\ Len(logEntries) < MaxLog
    /\ \E r \in inflight : inflight' = inflight \ {r}
    /\ logEntries' = addLog(logEntries, <<"Error fetching status: ">>)
    /\ connectionStatus' = "Error"
    /\ UNCHANGED <<socketConnected, isVideoActive, videoFeedSrc, toggleText,
                   sent, statusTimer, timers, nextTimerId, nextRequest,
                   snapshot, docHidden, resizeTimeout, restartPending,
                   unloaded>>
    /\ UNCHANGED outsideScript

\* --------------------------------------------------- script.js: visibility

\* The hidden branch of the 2nd revision of the handler (lines 170-174):
\* resets the flag and the frame without telling the server.
OnHidden_NoStop ==
    /\ IF isVideoActive
       THEN /\ isVideoActive' = FALSE
            /\ videoFeedSrc' = ""
            /\ toggleText' = "Start Video"
            /\ UNCHANGED sent
       ELSE UNCHANGED <<isVideoActive, sent, videoFeedSrc, toggleText>>
    /\ timers' = timers \ {statusTimer}
    /\ UNCHANGED <<statusTimer, nextTimerId, inflight, nextRequest>>

\* A hidden branch that sends "stop" whether or not the video is active.
OnHidden_AlwaysStops ==
    /\ Len(sent) < MaxSent
    /\ isVideoActive' = FALSE
    /\ sent' = Append(sent, Emit("stop_video", "", NoDistance))
    /\ videoFeedSrc' = ""
    /\ toggleText' = "Start Video"
    /\ timers' = timers \ {statusTimer}
    /\ UNCHANGED <<statusTimer, nextTimerId, inflight, nextRequest>>

\* if (document.hidden) { stop the video if active; clearInterval(statusTimer) }
OnHidden ==
    /\ IF isVideoActive
       THEN /\ Len(sent) < MaxSent
            /\ isVideoActive' = FALSE
            /\ sent' = Append(sent, Emit("stop_video", "", NoDistance))
            /\ videoFeedSrc' = ""
            /\ toggleText' = "Start Video"
       ELSE UNCHANGED <<isVideoActive, sent, videoFeedSrc, toggleText>>
    /\ timers' = timers \ {statusTimer}
    /\ UNCHANGED <<statusTimer, nextTimerId, inflight, nextRequest>>

\* A visible branch that also resumes the video it finds stopped.
OnVisible_AutoResume ==
    /\ nextRequest <= MaxRequests
    /\ nextTimerId <= MaxTimerId
    /\ inflight' = inflight \cup {nextRequest}
    /\ nextRequest' = nextRequest + 1
    /\ statusTimer' = nextTimerId
    /\ timers' = timers \cup {nextTimerId}
    /\ nextTimerId' = nextTimerId + 1
    /\ IF ~isVideoActive /\ Len(sent) < MaxSent
       THEN /\ isVideoActive' = TRUE
            /\ sent' = Append(sent, Emit("start_video", "", NoDistance))
            /\ toggleText' = "Stop Video"
            /\ UNCHANGED videoFeedSrc
       ELSE UNCHANGED <<isVideoActive, sent, videoFeedSrc, toggleText>>

\* else { fetchStatus(); statusTimer = setInterval(fetchStatus, statusInterval) }
OnVisible ==
    /\ nextRequest <= MaxRequests
    /\ nextTimerId <= MaxTimerId
    /\ inflight' = inflight \cup {nextRequest}
    /\ nextRequest' = nextRequest + 1
    /\ statusTimer' = nextTimerId
    /\ timers' = timers \cup {nextTimerId}
    /\ nextTimerId' = nextTimerId + 1
    /\ UNCHANGED <<isVideoActive, sent, videoFeedSrc, toggleText>>

\* document 'visibilitychange': document.hidden flips, the handler runs.
VisibilityChange ==
    /\ ~unloaded
    /\ docHidden' = ~docHidden
    /\ IF docHidden' THEN OnHidden ELSE OnVisible
    /\ UNCHANGED <<socketConnected, connectionStatus, logEntries, snapshot,
                   resizeTimeout, restartPending, unloaded>>
    /\ UNCHANGED outsideScript

\* ------------------------------------------------------- script.js: unload

UnloadStop_Unconditional ==
    /\ Len(sent) < MaxSent
    /\ sent' = Append(sent, Emit("stop_video", "", NoDistance))

\* if (isVideoActive) socket.emit('stop_video') -- runs before
\* socket.disconnect(), so the emit sees the socket as it was.
UnloadStop ==
    IF isVideoActive
    THEN /\ Len(sent) < MaxSent
         /\ sent' = Append(sent, Emit("stop_video", "", NoDistance))
    ELSE UNCHANGED sent

\* window 'unload': optional stop_video, clearInterval(statusTimer),
\* socket.disconnect().  Closing a connected socket fires its 'disconnect'
\* event, so the disconnect handler runs inside this handler.
Unload ==
    /\ ~unloaded
    /\ unloaded' = TRUE
    /\ UnloadStop
    /\ timers' = timers \ {statusTimer}
    /\ socketConnected' = FALSE
    /\ IF socketConnected
       THEN /\ Len(logEntries) < MaxLog
            /\ DisconnectHandler
       ELSE UNCHANGED <<connectionStatus, logEntries, isVideoActive,
                        videoFeedSrc, toggleText>>
    /\ UNCHANGED <<statusTimer, nextTimerId, inflight, nextRequest, snapshot,
                   docHidden, resizeTimeout, restartPending>>
    /\ UNCHANGED outsideScript

\* ------------------------------------------------------- script.js: resize

ArmDebounce_NoClear(pending) == pending + 1

\* clearTimeout(resizeTimeout) cancels the pending debounce timeout, if any;
\* setTimeout(.., 250) arms a new one.
ArmDebounce(pending) == (IF pending > 0 THEN pending - 1 ELSE 0) + 1

\* window 'resize': clearTimeout(resizeTimeout); resizeTimeout = setTimeout(.., 250)
Resize ==
    /\ ~unloaded
    /\ resizeTimeout' = ArmDebounce(resizeTimeout)
    /\ UNCHANGED <<socketConnected, connectionStatus, isVideoActive,
                   videoFeedSrc, toggleText, logEntries, sent, statusTimer,
                   timers, nextTimerId, inflight, nextRequest, snapshot,
                   docHidden, restartPending, unloaded>>
    /\ UNCHANGED outsideScript

\* The 250 ms debounce timeout fires.  A restart timeout armed by the previous
\* debounce callback is due 150 ms before any later debounce callback, so it
\* has already fired.
ResizeSettled ==
    /\ ~unloaded
    /\ resizeTimeout > 0
    /\ ~restartPending
    /\ resizeTimeout' = resizeTimeout - 1
    /\ IF isVideoActive
       THEN /\ videoFeedSrc' = ""
            /\ restartPending' = TRUE
       ELSE UNCHANGED <<videoFeedSrc, restartPending>>
    /\ UNCHANGED <<socketConnected, connectionStatus, isVideoActive,
                   toggleText, logEntries, sent, statusTimer, timers,
                   nextTimerId, inflight, nextRequest, snapshot, docHidden,
                   unloaded>>
    /\ UNCHANGED outsideScript

\* A restart that does not look at isVideoActive.
ResizeRestart_Unconditional ==
    /\ ~unloaded
    /\ restartPending
    /\ restartPending' = FALSE
    /\ Len(sent) < MaxSent
    /\ sent' = Append(sent, Emit("start_video", "", NoDistance))
    /\ UNCHANGED <<socketConnected, connectionStatus, isVideoActive,
                   videoFeedSrc, toggleText, logEntries, statusTimer, timers,
                   nextTimerId, inflight, nextRequest, snapshot, docHidden,
                   resizeTimeout, unloaded>>
    /\ UNCHANGED outsideScript

\* The nested 100 ms timeout fires.
ResizeRestart ==
    /\ ~unloaded
    /\ restartPending
    /\ restartPending' = FALSE
    /\ IF isVideoActive
       THEN /\ Len(sent) < MaxSent
            /\ sent' = Append(sent, Emit("start_video", "", NoDistance))
       ELSE UNCHANGED sent
    /\ UNCHANGED <<socketConnected, connectionStatus, isVideoActive,
                   videoFeedSrc, toggleText, logEntries, statusTimer, timers,
                   nextTimerId, inflight, nextRequest, snapshot, docHidden,
                   resizeTimeout, unloaded>>
    /\ UNCHANGED outsideScript

Next ==
    \/ (Len(logEntries) < MaxLog /\ Connect)
    \/ (Len(logEntries) < MaxLog /\ Disconnect)
    \/ SocketError
    \/ Message
    \/ VideoFrame
    \/ ToggleVideo
    \/ SendCommand
    \/ SendMoveCommand
    \/ StatusTick
    \/ StatusResponseOk
    \/ StatusResponseFail
    \/ VisibilityChange
    \/ Unload
    \/ Resize
    \/ ResizeSettled
    \/ ResizeRestart

Spec == Init /\ [][Next]_vars

\* The connection / video / polling handlers on their own, with room in the
\* log for a whole drop-and-reconnect cycle after the video was started.
NextSession ==
    \/ Connect
    \/ Disconnect
    \/ ToggleVideo
    \/ VideoFrame
    \/ StatusTick
    \/ StatusResponseOk
    \/ StatusResponseFail
    \/ VisibilityChange
    \/ Resize
    \/ ResizeSettled
    \/ ResizeRestart

SpecSession == Init /\ [][NextSession]_vars

\* ------------------------------------------------------- drone-control.js

\* Body of socket.on('connect').
DcConnectHandler ==
    /\ isConnected' = TRUE
    /\ dcLog' = Append(dcLog, <<"Connected to drone server", "success">>)

\* Body of socket.on('disconnect').
DcDisconnectHandler ==
    /\ isConnected' = FALSE
    /\ dcLog' = Append(dcLog, <<"Disconnected from drone server", "danger">>)

\* socket.on('connect')
DcConnect ==
    /\ ~isConnected
    /\ Len(dcLog) < MaxLog
    /\ DcConnectHandler
    /\ UNCHANGED <<isStreaming, dcVideoSrc, dcSent, dcFetches, dcPending,
                   dcTelemetry, startBtnDisabled, stopBtnDisabled>>
    /\ UNCHANGED outsideDC

\* socket.on('disconnect')
DcDisconnect ==
    /\ isConnected
    /\ Len(dcLog) < MaxLog
    /\ DcDisconnectHandler
    /\ UNCHANGED <<isStreaming, dcVideoSrc, dcSent, dcFetches, dcPending,
                   dcTelemetry, startBtnDisabled, stopBtnDisabled>>
    /\ UNCHANGED outsideDC

\* sendDroneCommand(command), up to the await of fetch().
DcSendDroneCommand ==
    /\ \E c \in Commands :
         IF ~isConnected
         THEN /\ Len(dcLog) < MaxLog
              /\ dcLog' = Append(dcLog, <<"Cannot send command: Drone not connected", "warning">>)
              /\ UNCHANGED <<dcFetches, dcPending>>
         ELSE /\ Len(dcFetches) < MaxFetches
              /\ dcFetches' = Append(dcFetches, [url |-> "/drone_command", command |-> c])
              /\ dcPending' = dcPending \cup {Len(dcFetches) + 1}
              /\ UNCHANGED dcLog
    /\ UNCHANGED <<isConnected, isStreaming, dcVideoSrc, dcSent, dcTelemetry,
                   startBtnDisabled, stopBtnDisabled>>
    /\ UNCHANGED outsideDC

\* sendDroneCommand resumes: response.ok, or the catch block.
DcCommandResponse ==
    /\ Len(dcLog) < MaxLog
    /\ \E i \in dcPending, ok \in BOOLEAN :
         /\ dcFetches[i].url = "/drone_command"
         /\ dcPending' = dcPending \ {i}
         /\ dcLog' = IF ok
                     THEN Append(dcLog, <<"Command executed: ", dcFetches[i].command, "success">>)
                     ELSE Append(dcLog, <<"Command error: ", "danger">>)
    /\ UNCHANGED <<isConnected, isStreaming, dcVideoSrc, dcSent, dcFetches,
                   dcTelemetry, startBtnDisabled, stopBtnDisabled>>
    /\ UNCHANGED outsideDC

\* startVideoStream()
DcStartVideoStream ==
    /\ Len(dcLog) < MaxLog
    /\ IF ~isConnected
       THEN /\ dcLog' = Append(dcLog, <<"Cannot start stream: Drone not connected", "warning">>)
            /\ UNCHANGED <<dcSent, isStreaming, startBtnDisabled, stopBtnDisabled>>
       ELSE /\ Len(dcSent) < MaxSent
            /\ dcSent' = Append(dcSent, [event |-> "start_video", connected |-> isConnected])
            /\ isStreaming' = TRUE
            /\ startBtnDisabled' = TRUE
            /\ stopBtnDisabled' = FALSE
            /\ dcLog' = Append(dcLog, <<"Video stream started", "success">>)
    /\ UNCHANGED <<isConnected, dcVideoSrc, dcFetches, dcPending, dcTelemetry>>
    /\ UNCHANGED outsideDC

\* stopVideoStream()
DcStopVideoStream ==
    /\ Len(dcLog) < MaxLog
    /\ Len(dcSent) < MaxSent
    /\ dcSent' = Append(dcSent, [event |-> "stop_video", connected |-> isConnected])
    /\ isStreaming' = FALSE
    /\ startBtnDisabled' = FALSE
    /\ stopBtnDisabled' = TRUE
    /\ dcVideoSrc' = ""
    /\ dcLog' = Append(dcLog, <<"Video stream stopped", "info">>)
    /\ UNCHANGED <<isConnected, dcFetches, dcPending, dcTelemetry>>
    /\ UNCHANGED outsideDC

\* socket.on('video_frame'); an empty data.frame is falsy.
DcVideoFrame ==
    /\ isConnected
    /\ \E f \in Frames \cup {""} :
         dcVideoSrc' = IF isStreaming /\ f # "" THEN f ELSE dcVideoSrc
    /\ UNCHANGED <<isConnected, isStreaming, dcSent, dcFetches, dcPending,
                   dcTelemetry, startBtnDisabled, stopBtnDisabled, dcLog>>
    /\ UNCHANGED outsideDC

\* setInterval(updateTelemetry, 1000) fires: updateTelemetry up to its await.
DcTelemetryTick ==
    /\ IF ~isConnected
       THEN UNCHANGED <<dcFetches, dcPending>>
       ELSE /\ Len(dcFetches) < MaxFetches
            /\ dcFetches' = Append(dcFetches, [url |-> "/status", command |-> ""])
            /\ dcPending' = dcPending \cup {Len(dcFetches) + 1}
    /\ UNCHANGED <<isConnected, isStreaming, dcVideoSrc, dcSent, dcTelemetry,
                   startBtnDisabled, stopBtnDisabled, dcLog>>
    /\ UNCHANGED outsideDC

\* checkCriticalStatus(data): the warnings it logs, in order.
checkCriticalStatus(data) ==
    (IF data.battery <= 20 THEN << <<"Low battery warning: ", data.battery, "warning">> >> ELSE <<>>)
    \o (IF data.height > 100 THEN << <<"High altitude warning: ", data.height, "warning">> >> ELSE <<>>)
    \o (IF data.wifi_strength < 50 THEN << <<"Weak signal warning: ", data.wifi_strength, "warning">> >> ELSE <<>>)

\* updateTelemetry resumes: displays and warnings when response.ok, nothing
\* otherwise (a rejected fetch is only written to the console).
DcTelemetryResponse ==
    /\ \E i \in dcPending :
         /\ dcFetches[i].url = "/status"
         /\ dcPending' = dcPending \ {i}
         /\ \/ \E data \in TelemetryData :
                 /\ Len(dcLog) + Len(checkCriticalStatus(data)) <= MaxLog
                 /\ dcTelemetry' = data
                 /\ dcLog' = dcLog \o checkCriticalStatus(data)
            \/ UNCHANGED <<dcTelemetry, dcLog>>
    /\ UNCHANGED <<isConnected, isStreaming, dcVideoSrc, dcSent, dcFetches,
                   startBtnDisabled, stopBtnDisabled>>
    /\ UNCHANGED outsideDC

\* socket.on('message') and socket.on('error') only log.
DcMessage ==
    /\ Len(dcLog) < MaxLog
    /\ \/ \E m \in Messages : dcLog' = Append(dcLog, <<m, "info">>)
       \/ dcLog' = Append(dcLog, <<"Error: ", "danger">>)
    /\ UNCHANGED <<isConnected, isStreaming, dcVideoSrc, dcSent, dcFetches,
                   dcPending, dcTelemetry, startBtnDisabled, stopBtnDisabled>>
    /\ UNCHANGED outsideDC

NextDC ==
    \/ DcConnect
    \/ DcDisconnect
    \/ DcSendDroneCommand
    \/ DcCommandResponse
    \/ DcStartVideoStream
    \/ DcStopVideoStream
    \/ DcVideoFrame
    \/ DcTelemetryTick
    \/ DcTelemetryResponse
    \/ DcMessage

SpecDC == Init /\ [][NextDC]_vars

\* ------------------------------------------------------ script.js: addLog
\* The log recorder on its own: a run of addLog calls, long enough to fill
\* the container and evict.  addLog never looks at the message, so the
\* messages are numbered 1, 2, 3, ... to tell the entries apart.

\* Serial number of the most recent entry (0 for the empty log).
LastSerial ==
    IF logEntries = <<>> THEN 0 ELSE logEntries[Len(logEntries)][1]

\* One addLog(message) call, whichever handler makes it.
LogAppend ==
    /\ LastSerial < MaxAppends
    /\ logEntries' = addLog(logEntries, <<LastSerial + 1>>)
    /\ UNCHANGED <<socketConnected, connectionStatus, isVideoActive,
                   videoFeedSrc, toggleText, sent, statusTimer, timers,
                   nextTimerId, inflight, nextRequest, snapshot, docHidden,
                   resizeTimeout, restartPending, unloaded>>
    /\ UNCHANGED outsideScript

NextLog == LogAppend

SpecLog == Init /\ [][NextLog]_vars

\* ------------------------------------------------ the sockets' reconnection
\* What the options passed to io(...) make the Socket.IO manager do when a
\* connection attempt fails or an open connection drops.  script.js passes no
\* options (reconnection on, no limit on attempts); drone-control.js passes
\* reconnection: true, reconnectionAttempts: 5.

IoOptions == [limited |-> FALSE, reconnectionAttempts |-> 0]

DcOptions == [limited |-> TRUE, reconnectionAttempts |-> 5]

\* The manager gives up when the attempts made reach the configured limit.
Exhausted(options, made) ==
    options.limited /\ made >= options.reconnectionAttempts

\* After a failed attempt or a drop: give up, or schedule one more attempt.
Reconnect(options, made) ==
    IF Exhausted(options, made)
    THEN [phase |-> "closed", attempts |-> 0]
    ELSE [phase |-> "waiting", attempts |-> made + 1]

\* script.js socket: the initial open or a reconnection attempt succeeds.
IoOpened ==
    /\ ioPhase \in {"opening", "waiting"}
    /\ Len(logEntries) < MaxLifecycleLog
    /\ ioPhase' = "open"
    /\ ioAttempts' = 0
    /\ socketConnected' = TRUE
    /\ ConnectHandler
    /\ UNCHANGED <<isVideoActive, videoFeedSrc, toggleText, sent, statusTimer,
                   timers, nextTimerId, inflight, nextRequest, snapshot,
                   docHidden, resizeTimeout, restartPending, unloaded>>
    /\ UNCHANGED <<dcVars, dcPhase, dcAttempts, serverVars, restVars>>

\* script.js socket: the initial open or a reconnection attempt fails.
IoOpenFailed ==
    /\ ioPhase \in {"opening", "waiting"}
    /\ ioAttempts < MaxAttempts
    /\ ioPhase' = Reconnect(IoOptions, ioAttempts).phase
    /\ ioAttempts' = Reconnect(IoOptions, ioAttempts).attempts
    /\ UNCHANGED <<scriptVars, dcVars, dcPhase, dcAttempts, serverVars, restVars>>

\* script.js socket: the open connection drops.
IoDropped ==
    /\ ioPhase = "open"
    /\ Len(logEntries) < MaxLifecycleLog
    /\ ioPhase' = Reconnect(IoOptions, ioAttempts).phase
    /\ ioAttempts' = Reconnect(IoOptions, ioAttempts).attempts
    /\ socketConnected' = FALSE
    /\ DisconnectHandler
    /\ UNCHANGED <<sent, statusTimer, timers, nextTimerId, inflight,
                   nextRequest, snapshot, docHidden, resizeTimeout,
                   restartPending, unloaded>>
    /\ UNCHANGED <<dcVars, dcPhase, dcAttempts, serverVars, restVars>>

\* drone-control.js socket: the initial open or a reconnection attempt succeeds.
DcOpened ==
    /\ dcPhase \in {"opening", "waiting"}
    /\ Len(dcLog) < MaxLifecycleLog
    /\ dcPhase' = "open"
    /\ dcAttempts' = 0
    /\ DcConnectHandler
    /\ UNCHANGED <<isStreaming, dcVideoSrc, dcSent, dcFetches, dcPending,
                   dcTelemetry, startBtnDisabled, stopBtnDisabled>>
    /\ UNCHANGED <<scriptVars, ioPhase, ioAttempts, serverVars, restVars>>

\* drone-control.js socket: the initial open or a reconnection attempt fails.
DcOpenFailed ==
    /\ dcPhase \in {"opening", "waiting"}
    /\ dcPhase' = Reconnect(DcOptions, dcAttempts).phase
    /\ dcAttempts' = Reconnect(DcOptions, dcAttempts).attempts
    /\ UNCHANGED <<scriptVars, dcVars, ioPhase, ioAttempts, serverVars, restVars>>

\* drone-control.js socket: the open connection drops.
DcDropped ==
    /\ dcPhase = "open"
    /\ Len(dcLog) < MaxLifecycleLog
    /\ dcPhase' = Reconnect(DcOptions, dcAttempts).phase
    /\ dcAttempts' = Reconnect(DcOptions, dcAttempts).attempts
    /\ DcDisconnectHandler
    /\ UNCHANGED <<isStreaming, dcVideoSrc, dcSent, dcFetches, dcPending,
                   dcTelemetry, startBtnDisabled, stopBtnDisabled>>
    /\ UNCHANGED <<scriptVars, ioPhase, ioAttempts, serverVars, restVars>>

NextReconnect ==
    \/ IoOpened
    \/ IoOpenFailed
    \/ IoDropped
    \/ DcOpened
    \/ DcOpenFailed
    \/ DcDropped

SpecReconnect == Init /\ [][NextReconnect]_vars

\* ------------------------------------ server: login, logout and dashboard
\* The Express routes of the web app.  A token is what jwt.sign produced: its
\* payload, the key it was signed with and its expiry time.

\* process.env.JWT_SECRET
JWT_SECRET == "server secret"

\* { expiresIn: '2m' }
TokenLifetime == 2

\* The users collection: one registered user (password stands for its hash).
Users == { [id |-> "u1", email |-> "a@x", password |-> "pw"] }

\* req.body.email and req.body.password; "" is a missing field.
Emails == {"", "a@x", "b@x"}
Passwords == {"", "pw", "bad"}

\* A token signed with a key that is not the server's.
ForgedToken == [id |-> "u1", email |-> "a@x", key |-> "other secret",
                exp |-> MaxClock + TokenLifetime + 1]

\* jwt.sign({ id, email }, JWT_SECRET, { expiresIn: '2m' })
jwtSign(user, now) ==
    [id |-> user.id, email |-> user.email, key |-> JWT_SECRET,
     exp |-> now + TokenLifetime]

\* jwt.verify(token, secret, callback): err is set for a signature made with
\* another key and for an expired token.
jwtVerify(token, secret, now) == token.key = secret /\ now < token.exp

\* A password check that accepts every password.
verifyPassword_AcceptsAll(plain, hashed) == TRUE

\* verifyPassword: bcrypt.compare(plainPassword, hashedPassword)
verifyPassword(plain, hashed) == plain = hashed

\* A middleware that only looks for the cookie.
authenticateToken_NoVerify(token, now) == token # NoToken

\* authenticateToken: TRUE when next() is called, FALSE when it answers 403.
authenticateToken(token, now) ==
    IF token = NoToken THEN FALSE ELSE jwtVerify(token, JWT_SECRET, now)

\* POST /login
SrvLogin ==
    /\ \E email \in Emails, password \in Passwords, dbError \in BOOLEAN :
         LET found == {u \in Users : u.email = email}
             user == CHOOSE u \in found : TRUE
             form == [email |-> email, password |-> password]
             Answer(code, error) ==
                 /\ lastResponse' = [route |-> "/login", status |-> code,
                                     handlerRan |-> TRUE, token |-> NoToken,
                                     at |-> clock, body |-> form,
                                     threw |-> error]
                 /\ UNCHANGED <<cookie, issued>>
         IN  IF email = "" \/ password = "" THEN Answer(400, FALSE)
             ELSE IF dbError THEN Answer(500, TRUE)
             ELSE IF found = {} THEN Answer(404, FALSE)
             ELSE IF ~verifyPassword(password, user.password)
                  THEN Answer(401, FALSE)
             ELSE /\ cookie' = jwtSign(user, clock)
                  /\ issued' = issued \cup {jwtSign(user, clock)}
                  /\ lastResponse' = [route |-> "/login", status |-> 302,
                                      handlerRan |-> TRUE,
                                      token |-> jwtSign(user, clock),
                                      at |-> clock, body |-> form,
                                      threw |-> FALSE]
    /\ UNCHANGED clock
    /\ UNCHANGED <<scriptVars, dcVars, managerVars, restVars>>

\* POST /logout: res.clearCookie('token')
SrvLogout ==
    /\ cookie' = NoToken
    /\ lastResponse' = [route |-> "/logout", status |-> 200, handlerRan |-> TRUE,
                        token |-> cookie, at |-> clock, body |-> NoBody,
                        threw |-> FALSE]
    /\ UNCHANGED <<clock, issued>>
    /\ UNCHANGED <<scriptVars, dcVars, managerVars, restVars>>

\* GET /dashboard behind authenticateToken.  The request carries the browser's
\* cookie, or a token some client kept, or a forged one.
SrvDashboard ==
    /\ \E token \in {cookie, ForgedToken} \cup issued,
          lookup \in {"found", "none", "error"} :
         lastResponse' =
            IF ~authenticateToken(token, clock)
            THEN [route |-> "/dashboard", status |-> 403, handlerRan |-> FALSE,
                  token |-> token, at |-> clock, body |-> NoBody,
                  threw |-> FALSE]
            ELSE [route |-> "/dashboard",
                  status |-> IF lookup = "found" THEN 200
                             ELSE IF lookup = "none" THEN 404 ELSE 500,
                  handlerRan |-> TRUE, token |-> token, at |-> clock,
                  body |-> NoBody, threw |-> lookup = "error"]
    /\ UNCHANGED <<cookie, clock, issued>>
    /\ UNCHANGED <<scriptVars, dcVars, managerVars, restVars>>

\* A minute passes.
SrvTick ==
    /\ clock < MaxClock
    /\ clock' = clock + 1
    /\ UNCHANGED <<cookie, issued, lastResponse>>
    /\ UNCHANGED <<scriptVars, dcVars, managerVars, restVars>>

NextServer == SrvLogin \/ SrvLogout \/ SrvDashboard \/ SrvTick

SpecServer == Init /\ [][NextServer]_vars

\* ------------------------------------- script.js lines 1-58: REST dashboard
\* getStatus, takeoff, land and move: fetch(url).then(response =>
\* response.json()).then(use the data).catch(go to /offline).

\* The URLs the four functions fetch.
RestUrls == {"/status", "/takeoff", "/land", "/move/forward/20"}

\* How a fetch can end: the promise rejects (network error), or a response
\* arrives whose body is JSON or not and whose status is ok or not.
Outcomes ==
    {[rejected |-> TRUE, json |-> FALSE, ok |-> FALSE]}
    \cup {[rejected |-> FALSE, json |-> j, ok |-> o] : j, o \in BOOLEAN}

\* The promise chain reaches its catch: fetch rejected, or response.json()
\* rejected because the body is not JSON.  response.ok is never read.
ChainRejects(outcome) == outcome.rejected \/ ~outcome.json

\* getStatus(), takeoff(), land() or move(..) is called: fetch(url).
RestRequest ==
    /\ restLocation = "/"
    /\ restIssued < MaxRest
    /\ \E url \in RestUrls :
         restPending' = restPending \cup {[id |-> restIssued + 1, url |-> url]}
    /\ restIssued' = restIssued + 1
    /\ UNCHANGED <<restLocation, restAlerts, restDisplay, restLast>>
    /\ UNCHANGED <<scriptVars, dcVars, managerVars, serverVars>>

\* A fetch settles and the rest of its promise chain runs.
RestSettle ==
    /\ restLocation = "/"
    /\ \E p \in restPending, outcome \in Outcomes :
         /\ restPending' = restPending \ {p}
         /\ restLast' = [request |-> p.id, url |-> p.url, outcome |-> outcome]
         /\ IF ChainRejects(outcome)
            THEN /\ restLocation' = "/offline"
                 /\ UNCHANGED <<restAlerts, restDisplay>>
            ELSE IF p.url = "/status"
            THEN /\ restDisplay' = [f \in DOMAIN restDisplay |-> p.id]
                 /\ UNCHANGED <<restLocation, restAlerts>>
            ELSE /\ restAlerts' = Append(restAlerts, p.id)
                 /\ UNCHANGED <<restLocation, restDisplay>>
    /\ UNCHANGED restIssued
    /\ UNCHANGED <<scriptVars, dcVars, managerVars, serverVars>>

NextRest == RestRequest \/ RestSettle

SpecRest == Init /\ [][NextRest]_vars

\* ------------------------------------------- script.js: the poller alone
\* A long run of polls, each answered before the next tick.  The "[time]"
\* prefix addLog puts on an entry is left out elsewhere; here the number of
\* the poll stands for it, so that the entries of different polls differ.

\* The interval fires with no request pending: fetchStatus() up to its await.
PollTick ==
    /\ nextRequest <= MaxPolls
    /\ inflight = {}
    /\ \E t \in timers :
         /\ inflight' = {nextRequest}
         /\ nextRequest' = nextRequest + 1
    /\ UNCHANGED <<socketConnected, connectionStatus, isVideoActive,
                   videoFeedSrc, toggleText, logEntries, sent, statusTimer,
                   timers, nextTimerId, snapshot, docHidden, resizeTimeout,
                   restartPending, unloaded>>
    /\ UNCHANGED outsideScript

\* fetchStatus resumes with response.ok.
PollOk ==
    /\ \E r \in inflight :
         /\ inflight' = inflight \ {r}
         /\ snapshot' = updateStatusDisplay(snapshot, r)
         /\ logEntries' = addLog(logEntries, <<"Status updated successfully", r>>)
    /\ UNCHANGED <<socketConnected, connectionStatus, isVideoActive,
                   videoFeedSrc, toggleText, sent, statusTimer, timers,
                   nextTimerId, nextRequest, docHidden, resizeTimeout,
                   restartPending, unloaded>>
    /\ UNCHANGED outsideScript

NextPoll == PollTick \/ PollOk

SpecPoll == Init /\ [][NextPoll]_vars

\* =================================================================== claims

\* The step appended a drone_command to the socket's outbound record.
CommandForwarded ==
    /\ Len(sent') = Len(sent) + 1
    /\ sent'[Len(sent')].event = "drone_command"

\* The step is a call of sendCommand or sendMoveCommand.
Dispatch == SendCommand \/ SendMoveCommand

RejectedEntry == <<"Error: Not connected to drone">>

C3_FrameOnlyWhileActive ==
    VideoStreamState # "Active" => videoFeedSrc = ""

\* C3 witness: video was started and has since left Active through the
\* disconnect handler; the frame is cleared.
C3_Witness ==
    /\ VideoStreamState = "Inactive"
    /\ videoFeedSrc = ""
    /\ Len(sent) >= 1
    /\ sent[Len(sent)].event = "start_video"
    /\ connectionStatus = "Disconnected"
    /\ ~unloaded

StartIntent == Emit("start_video", "", NoDistance)

StopIntent == Emit("stop_video", "", NoDistance)

\* C4: a disconnect event forces the video state to Inactive, clears the
\* rendered frame and sends no "stop" intent.  Stated for the drone-control.js
\* client, whose video state is isStreaming.
C4_DisconnectResetsVideo ==
    [][(isConnected /\ ~isConnected')
         => (~isStreaming' /\ dcVideoSrc' = "" /\ dcSent' = dcSent)]_vars

\* C5: a toggle-on takes the video from Inactive to Active, and sends "start",
\* only when connectivity is Connected; otherwise the video stays Inactive and
\* nothing is sent.
C5_ToggleOnOnlyWhenConnected ==
    [][(ToggleVideo /\ ~isVideoActive)
         => IF ConnectivityState = "Connected"
            THEN isVideoActive' /\ sent' = Append(sent, StartIntent)
            ELSE ~isVideoActive' /\ sent' = sent]_vars

\* C6: every outbound message was emitted while the session was connected.
C6_EmitOnlyWhileConnected ==
    \A i \in 1..Len(sent) : sent[i].connected

\* C7: a step that takes the video Active -> Inactive leaves the frame
\* cleared, and a step that takes it Inactive -> Active sends exactly one
\* "start" intent and nothing else, whatever resize, visibility and
\* connectivity events are interleaved.
C7_ClearOnOffOneStartPerOn ==
    [][/\ (isVideoActive /\ ~isVideoActive') => videoFeedSrc' = ""
       /\ (~isVideoActive /\ isVideoActive') => sent' = Append(sent, StartIntent)]_vars

\* C7 witness: the video was toggled on, off and on again; a frame cleared by
\* the toggle-off, one "start" per toggle-on.
C7_Witness ==
    /\ isVideoActive
    /\ Len(sent) = 3
    /\ sent[1].event = "start_video"
    /\ sent[2].event = "stop_video"
    /\ sent[3].event = "start_video"
    /\ Len(logEntries) >= 3
    /\ logEntries[Len(logEntries) - 2] = <<"Starting video stream">>
    /\ logEntries[Len(logEntries) - 1] = <<"Stopping video stream">>
    /\ logEntries[Len(logEntries)] = <<"Starting video stream">>

\* C8: a hidden event received while Active takes the video out of Active,
\* sends exactly one "stop" intent and clears the frame; received while not
\* Active it sends nothing and the video stays Inactive.
C8_HiddenStopsOnce ==
    [][(~docHidden /\ docHidden')
         => IF isVideoActive
            THEN /\ ~isVideoActive'
                 /\ videoFeedSrc' = ""
                 /\ sent' = Append(sent, StopIntent)
            ELSE /\ ~isVideoActive'
                 /\ sent' = sent]_vars

\* C8 witness: the page is hidden and the last message on the outbound record
\* is the "stop" the hidden handler sent (no toggle-off was logged).
C8_Witness ==
    /\ docHidden
    /\ ~unloaded
    /\ ~isVideoActive
    /\ Len(sent) >= 2
    /\ sent[Len(sent)].event = "stop_video"
    /\ \A i \in 1..Len(logEntries) : logEntries[i] # <<"Stopping video stream">>

\* The step appended a "start" intent to the socket's outbound record.
StartSent ==
    /\ Len(sent') = Len(sent) + 1
    /\ sent'[Len(sent')].event = "start_video"

\* C9: no auto-resume.  The hidden handler leaves the video Inactive, the
\* visible handler changes neither the video state nor the outbound record,
\* and from Inactive only a toggle click makes the video Active or sends a
\* "start" intent.
C9_NoAutoResume ==
    [][/\ (~docHidden /\ docHidden') => ~isVideoActive'
       /\ (docHidden /\ ~docHidden')
            => (isVideoActive' = isVideoActive /\ sent' = sent)
       /\ (~isVideoActive /\ (isVideoActive' \/ StartSent)) => ToggleVideo]_vars

\* C9 witness: the video was stopped by the hidden handler, the page is
\* visible again (a new interval timer was created) and the video is Inactive.
C9_Witness ==
    /\ ~docHidden
    /\ ~unloaded
    /\ ~isVideoActive
    /\ nextTimerId > 2
    /\ Len(sent) >= 2
    /\ sent[Len(sent)].event = "stop_video"
    /\ \A i \in 1..Len(logEntries) : logEntries[i] # <<"Stopping video stream">>

\* C10: the hidden handler cancels the poll schedule, and while the page stays
\* hidden with the schedule cancelled no telemetry request is issued.
C10_NoPollWhileHidden ==
    [][/\ (~docHidden /\ docHidden') => timers' = {}
       /\ (docHidden /\ docHidden' /\ timers = {})
            => (timers' = {} /\ inflight' \subseteq inflight)]_vars

\* The step issued a request for /status.
PollIssued == ~(inflight' \subseteq inflight)

\* C11: the visible handler issues exactly one poll at once and restarts the
\* periodic schedule from a fresh interval: afterwards the only interval
\* running is the one just created.
C11_VisibleRestartsSchedule ==
    [][(docHidden /\ ~docHidden')
         => /\ inflight' = inflight \cup {nextRequest}
            /\ nextRequest \notin inflight
            /\ statusTimer' \notin timers
            /\ timers' = {statusTimer'}]_vars

\* C12: a telemetry request is issued only while ConnectivityState is
\* Connected.
C12_PollOnlyWhileConnected ==
    [][PollIssued => ConnectivityState = "Connected"]_vars

\* C13: the log never holds more than 100 entries, and an append on a full
\* log evicts exactly one entry, the oldest.
C13_LogBounded ==
    [][/\ Len(logEntries) <= LogCapacity
       /\ Len(logEntries') <= LogCapacity
       /\ (Len(logEntries) = LogCapacity /\ logEntries' # logEntries)
            => /\ Len(logEntries') = LogCapacity
               /\ SubSeq(logEntries', 1, LogCapacity - 1) = Tail(logEntries)]_vars

\* C13 witness: the log is full and its oldest entries have been evicted.
C13_Witness ==
    /\ Len(logEntries) = LogCapacity
    /\ logEntries[1][1] = 3

\* C14: after n appends the log is the last min(n, 100) appended entries,
\* oldest first.  The appended messages are numbered 1..n.
C14_LastEntriesInOrder ==
    LET n == LastSerial
        k == IF n < LogCapacity THEN n ELSE LogCapacity
    IN  /\ Len(logEntries) = k
        /\ \A i \in 1..k : logEntries[i] = <<n - k + i>>

\* C14 witness: more than 100 appends were made.
C14_Witness ==
    /\ LastSerial = LogCapacity + 2
    /\ Len(logEntries) = LogCapacity

DisconnectEntry == <<"Disconnected from drone control system">>

C16_OneRestartPerBurst ==
    [][/\ resizeTimeout' <= 1
       /\ (resizeTimeout' > resizeTimeout)
            => UNCHANGED <<videoFeedSrc, sent, restartPending, isVideoActive>>
       /\ (~restartPending /\ restartPending')
            => (resizeTimeout = 1 /\ resizeTimeout' = 0 /\ sent' = sent)
       /\ (restartPending /\ ~restartPending')
            => (sent' = sent \/ sent' = Append(sent, StartIntent))]_vars

\* C16 witness: a burst has settled; the frame is cleared, one restart is
\* armed and no debounce timeout is left.
C16_Witness ==
    /\ restartPending
    /\ resizeTimeout = 0
    /\ isVideoActive
    /\ videoFeedSrc = ""
    /\ ~unloaded

\* C17: at teardown exactly one "stop" is sent if the video is Active, emitted
\* with the connection as it was before the close, none otherwise; the
\* connection is closed in both cases.
C17_StopBeforeClose ==
    [][(~unloaded /\ unloaded')
         => /\ IF isVideoActive
               THEN sent' = Append(sent, StopIntent)
               ELSE sent' = sent
            /\ ~socketConnected']_vars

\* C17 witness: the page was unloaded with the video Active on a connected
\* socket: the last message is a "stop" emitted while connected, and it came
\* from neither a toggle-off nor a hidden event.
C17_Witness ==
    /\ unloaded
    /\ ~socketConnected
    /\ ~docHidden
    /\ nextTimerId = 2
    /\ Len(sent) >= 2
    /\ sent[Len(sent)].event = "stop_video"
    /\ sent[Len(sent)].connected
    /\ \A i \in 1..Len(logEntries) : logEntries[i] # <<"Stopping video stream">>

\* C18: after teardown every timer is cancelled: no interval is running and
\* neither the resize debounce nor the resize restart is pending.
C18_TeardownCancelsTimers ==
    unloaded => (timers = {} /\ resizeTimeout = 0 /\ ~restartPending)

FailureEntry == <<"Error fetching status: ">>

PollsDone == nextRequest - 1 - Cardinality(inflight)

\* C21: after n sequential successful polls and no other logging, every
\* status field shows the data of poll n (the snapshot is replaced whole), and
\* the log holds min(n, 100) entries: the success entries of the most recent
\* polls, oldest first.
C21_SuccessfulPolls ==
    LET n == PollsDone
        k == IF n < LogCapacity THEN n ELSE LogCapacity
    IN  /\ n > 0 => \A f \in StatusFields : snapshot[f] = n
        /\ Len(logEntries) = k
        /\ \A i \in 1..k :
             logEntries[i] = <<"Status updated successfully", n - k + i>>

\* C21 witness: 150 polls have completed; 100 entries are retained, the
\* oldest of them logged by poll 51.
C21_Witness ==
    /\ PollsDone = 150
    /\ Len(logEntries) = 100
    /\ logEntries[1] = <<"Status updated successfully", 51>>
    /\ snapshot["height"] = 150

\* C22: after a drop either session makes at most 5 automatic reconnection
\* attempts, and once the attempts are used up it makes no further attempt:
\* it stays closed.
C22_AtMostFiveAttempts ==
    [][/\ connectionStatus' = "Disconnected" => ioAttempts' <= 5
       /\ (dcLog' # <<>> /\ dcLog'[Len(dcLog')] = <<"Disconnected from drone server", "danger">>)
            => dcAttempts' <= 5
       /\ ioPhase = "closed" => ioPhase' = "closed"
       /\ dcPhase = "closed" => dcPhase' = "closed"]_vars

C24_IndicatorReflectsTransport ==
    /\ connectionStatus = "Connected" => socketConnected
    /\ (~socketConnected /\ connectionStatus # "")
         => connectionStatus \in {"Disconnected", "Error"}

\* C24 witness: a poll succeeded after the connection dropped; the indicator
\* still reads 'Disconnected'.
C24_Witness ==
    /\ ~socketConnected
    /\ connectionStatus = "Disconnected"
    /\ logEntries[Len(logEntries)] = <<"Status updated successfully">>
    /\ ~unloaded

\* The log entry a connected dispatch writes for the message m it forwards.
SentEntry(m) ==
    IF m.distance = NoDistance
    THEN <<"Sending command: ", m.command>>
    ELSE <<"Sending movement command: ", m.command, m.distance>>

\* C27: a dispatch while Connected appends exactly one drone_command to the
\* outbound record, emitted on the connected socket, and exactly one 'sent'
\* log entry naming the same command and distance; nothing else changes.
C27_ConnectedDispatch ==
    [][(Dispatch /\ ConnectivityState = "Connected")
         => /\ Len(sent') = Len(sent) + 1
            /\ SubSeq(sent', 1, Len(sent)) = sent
            /\ sent'[Len(sent')].event = "drone_command"
            /\ sent'[Len(sent')].connected
            /\ \/ /\ sent'[Len(sent')].command \in Commands
                  /\ sent'[Len(sent')].distance = NoDistance
               \/ /\ sent'[Len(sent')].command \in Directions
                  /\ sent'[Len(sent')].distance \in Distances
            /\ logEntries' = addLog(logEntries, SentEntry(sent'[Len(sent')]))
            /\ UNCHANGED <<socketConnected, connectionStatus, isVideoActive,
                           videoFeedSrc, toggleText, statusTimer, timers,
                           nextTimerId, inflight, nextRequest, snapshot,
                           docHidden, resizeTimeout, restartPending,
                           unloaded>>]_vars

\* C27 witness: a move was dispatched while Connected; message and log entry
\* carry the direction and the distance.
C27_Witness ==
    /\ ConnectivityState = "Connected"
    /\ Len(sent) >= 1
    /\ sent[Len(sent)] = [event |-> "drone_command", command |-> "forward",
                          distance |-> 20, connected |-> TRUE]
    /\ logEntries[Len(logEntries)] = <<"Sending movement command: ", "forward", 20>>

\* C28: a toggle click while the video is Active sends exactly one "stop",
\* makes the video Inactive and clears the rendered frame.
C28_ToggleOffStops ==
    [][(ToggleVideo /\ isVideoActive)
         => /\ sent' = Append(sent, StopIntent)
            /\ ~isVideoActive'
            /\ videoFeedSrc' = ""
            /\ toggleText' = "Start Video"]_vars

\* C28 witness: the video has just been toggled off.
C28_Witness ==
    /\ ~isVideoActive
    /\ videoFeedSrc = ""
    /\ Len(sent) >= 2
    /\ sent[Len(sent)].event = "stop_video"
    /\ logEntries[Len(logEntries)] = <<"Stopping video stream">>

\* C29: when the debounce fires the frame is cleared and a restart armed only
\* if the video is Active; when the 100 ms delay expires "start" is sent, once,
\* only if the video is Active then; otherwise nothing is sent.
C29_RestartOnlyIfActive ==
    [][/\ (resizeTimeout' < resizeTimeout)
            => IF isVideoActive
               THEN videoFeedSrc' = "" /\ restartPending'
               ELSE UNCHANGED <<videoFeedSrc, restartPending>>
       /\ (restartPending /\ ~restartPending')
            => IF isVideoActive
               THEN sent' = Append(sent, StartIntent)
               ELSE sent' = sent]_vars

\* C29 witness: a restart was armed while Active and the video has become
\* Inactive before the delay expired.
C29_Witness ==
    /\ restartPending
    /\ ~isVideoActive
    /\ ~unloaded

\* C30: toggling the video off cancels a pending resize restart.
C30_ToggleOffCancelsRestart ==
    [][(ToggleVideo /\ isVideoActive) => ~restartPending']_vars

\* C25: the /dashboard handler runs only for a request whose token cookie is
\* present, signed with the server secret and not expired; every other
\* request is answered 403 without running the handler; and the browser's
\* cookie, once cleared by logout, stays cleared until a login succeeds, so
\* the browser's /dashboard requests in between are answered 403.
C25_DashboardNeedsValidToken ==
    [][/\ lastResponse'.route = "/dashboard"
            => /\ lastResponse'.handlerRan
                    <=> /\ lastResponse'.token # NoToken
                        /\ lastResponse'.token.key = JWT_SECRET
                        /\ lastResponse'.at < lastResponse'.token.exp
               /\ lastResponse'.handlerRan <=> lastResponse'.status # 403
               /\ lastResponse'.token = NoToken => lastResponse'.status = 403
       /\ lastResponse'.route = "/logout" => cookie' = NoToken
       /\ (cookie = NoToken /\ cookie' # NoToken)
            => (lastResponse'.route = "/login" /\ lastResponse'.status = 302)]_vars

\* C25 witness: after a successful login and a logout, a /dashboard request
\* without a token has just been answered 403.
C25_Witness ==
    /\ issued # {}
    /\ cookie = NoToken
    /\ lastResponse.route = "/dashboard"
    /\ lastResponse.token = NoToken
    /\ lastResponse.status = 403
    /\ ~lastResponse.handlerRan

\* The request failed: no response, a body that is not JSON, or an error
\* status.
RestFailed(outcome) == outcome.rejected \/ ~outcome.json \/ ~outcome.ok

\* C26: in the REST dashboard script the page has gone to /offline exactly
\* when the last settled request failed.
C26_FailureGoesOffline ==
    restLast.request # 0
        => (RestFailed(restLast.outcome) <=> restLocation = "/offline")

\* C31: between the frame-clear of a settled resize and the re-issued
\* "start", the rendered frame stays cleared: a frame pushed in that window
\* is not rendered.
C31_ClearedDuringRestart ==
    restartPending => videoFeedSrc = ""

\* C32: a pushed frame changes nothing but the rendered frame: while Active
\* the rendered frame becomes a received frame, while not Active it is left
\* as it is; video state, connectivity, indicator, poll schedule, requests,
\* outbound record and log are unchanged.
C32_FrameOnlyRenders ==
    [][VideoFrame
         => /\ IF isVideoActive
               THEN videoFeedSrc' \in Frames
               ELSE videoFeedSrc' = videoFeedSrc
            /\ UNCHANGED <<socketConnected, connectionStatus, isVideoActive,
                           toggleText, logEntries, sent, statusTimer, timers,
                           nextTimerId, inflight, nextRequest, snapshot,
                           docHidden, resizeTimeout, restartPending,
                           unloaded>>]_vars

\* C32 witness: a frame is on screen while Active and connected, with a poll
\* pending and the schedule running.
C32_Witness ==
    /\ isVideoActive
    /\ videoFeedSrc = "f2"
    /\ socketConnected
    /\ inflight # {}
    /\ statusTimer \in timers
    /\ Len(logEntries) = 2

\* C33: Degraded is entered only from Connected, with the transport up before
\* and after; a step taken with the transport down that leaves it down leaves
\* the state Disconnected, whatever it does to the indicator.
C33_DegradedOnlyFromConnected ==
    [][/\ (ConnectivityState # "Degraded" /\ ConnectivityState' = "Degraded")
            => (ConnectivityState = "Connected" /\ socketConnected')
       /\ ConnectivityState = "Disconnected"
            => ConnectivityState' \in {"Disconnected", "Connected"}]_vars

\* C33 witness: a poll failed while the transport was down; the indicator
\* reads 'Error' and the state is Disconnected.
C33_Witness ==
    /\ ConnectivityState = "Disconnected"
    /\ connectionStatus = "Error"
    /\ logEntries[Len(logEntries)] = FailureEntry
    /\ ~unloaded

\* The connect handler has not run yet.
NeverConnected ==
    /\ ~socketConnected
    /\ \A i \in 1..Len(logEntries) :
         logEntries[i] # <<"Connected to drone control system">>

\* C34: the first transition to Connected issues one telemetry poll and
\* starts the periodic schedule; before it no schedule is running.
C34_FirstConnectStartsPolling ==
    [][(NeverConnected /\ socketConnected')
         => /\ timers = {}
            /\ inflight' = inflight \cup {nextRequest}
            /\ nextRequest' = nextRequest + 1
            /\ statusTimer' \in timers']_vars

\* C35: POST /login answers 400 when the email or the password is missing,
\* 500 when the lookup or the check throws, 404 when no stored user has the
\* email, 401 when the password does not verify, and sets the token cookie
\* only in the remaining case, a stored user whose password verifies; in
\* every other case the cookie is left as it was.
C35_LoginCookieOnlyOnMatch ==
    [][SrvLogin
         => LET r == lastResponse'
                missing == r.body.email = "" \/ r.body.password = ""
                found == {u \in Users : u.email = r.body.email}
                verified == \E u \in found : u.password = r.body.password
            IN  /\ r.route = "/login"
                /\ r.status = IF missing THEN 400
                              ELSE IF r.threw THEN 500
                              ELSE IF found = {} THEN 404
                              ELSE IF ~verified THEN 401
                              ELSE 302
                /\ IF r.status = 302
                   THEN /\ cookie' = r.token
                        /\ cookie'.email = r.body.email
                        /\ cookie'.key = JWT_SECRET
                        /\ cookie'.exp = clock + TokenLifetime
                   ELSE cookie' = cookie /\ issued' = issued]_vars

\* C35 witness: a login with a wrong password for a stored user was answered
\* 401 and the cookie of an earlier login is still the one the browser holds.
C35_Witness ==
    /\ lastResponse.route = "/login"
    /\ lastResponse.status = 401
    /\ lastResponse.body = [email |-> "a@x", password |-> "bad"]
    /\ lastResponse.token = NoToken
    /\ cookie \in issued

\* C36: at most one periodic telemetry timer is running at any time, and a
\* running timer is the one whose handle is stored in statusTimer.
C36_OneStoredTimer ==
    /\ Cardinality(timers) <= 1
    /\ timers \subseteq {statusTimer}

\* C37: telemetry responses are applied in the order their requests were
\* issued: a published field never goes from a newer request's value back to
\* an older request's.
C37_SnapshotNeverGoesBack ==
    [][\A f \in StatusFields : snapshot'[f] >= snapshot[f]]_vars

\* C38: once the indicator reads 'Error' it changes only on a transport
\* connect event, to 'Connected', or on a disconnect event, to
\* 'Disconnected'; a successful poll leaves it.
C38_ErrorClearedOnlyByTransport ==
    [][(connectionStatus = "Error" /\ connectionStatus' # "Error")
         => \/ ~socketConnected /\ socketConnected'
               /\ connectionStatus' = "Connected"
            \/ socketConnected /\ ~socketConnected'
               /\ connectionStatus' = "Disconnected"]_vars

\* C38 witness: a poll succeeded after a failure on a connected socket and the
\* indicator still reads 'Error'.
C38_Witness ==
    /\ socketConnected
    /\ connectionStatus = "Error"
    /\ Len(logEntries) = 3
    /\ logEntries[2] = FailureEntry
    /\ logEntries[3] = <<"Status updated successfully">>
    /\ snapshot # NoSnapshot

\* The number of messages named event among the first k emitted.
Emitted(event, k) ==
    Cardinality({i \in 1..k : sent[i].event = event})

\* C39: in every prefix of the emitted messages the "stop video" intents are
\* at most as many as the "start video" intents.
C39_StopsAtMostStarts ==
    \A k \in 0..Len(sent) : Emitted("stop_video", k) <= Emitted("start_video", k)

\* C39 witness: a "start", a second "start" re-issued after a resize, then one
\* "stop" from the hidden handler.
C39_Witness ==
    /\ Len(sent) = 3
    /\ sent[1].event = "start_video"
    /\ sent[2].event = "start_video"
    /\ sent[3].event = "stop_video"
    /\ docHidden
    /\ ~isVideoActive
    /\ ~unloaded

====
